---- MODULE Spec2Model ----
(***************************************************************************)
(* Options-strategy analytics engine of opt-tracker-vite:                  *)
(*   src/src/utils/strategyCalculations.js  (payoff, classifier, metrics)  *)
(*   src/src/utils/chartUtils.js            (chart curve builder)          *)
(*                                                                         *)
(* Numbers.  JavaScript Numbers are modelled as exact fixed-point values:  *)
(* money (strike, premium, price, payoff) is an integer count of mills,    *)
(* 1/1000 of a dollar, so that rounding to 2 decimals (toFixed(2)) is a    *)
(* real conversion.  The inputs are chosen so that every intermediate      *)
(* value the code computes is a whole number of mills, except the          *)
(* interpolated breakeven, which is rounded as the code rounds it.  The    *)
(* value NaN (the result of parseFloat/parseInt on an unparsable field)    *)
(* is a distinguished value outside the range of the inputs.               *)
(***************************************************************************)
EXTENDS Integers, Sequences, FiniteSets, TLC

VARIABLES legs,   \* the caller's leg list (the array object passed by reference)
          given,  \* the leg list as the caller entered it, before any call
          price,  \* the asset price the payoff is asked at
          pc,     \* which operation produced out ("init" before any call)
          out     \* the value the operation returned

\* the storage service: src/src/services/storageService.js
VARIABLES localStorage,  \* the keys optionStrategies and optionStrategiesSyncStatus
          isOnline,      \* this.isOnline
          supabase,      \* the logged-in user and the rows sent to 'strategies'
          saveCalls,     \* each saveStrategy call: where it stands, its strategy
          syncRuns       \* each syncWithSupabase run: where it stands, its locals

storage == <<localStorage, isOnline, supabase, saveCalls, syncRuns>>

vars == <<legs, given, price, pc, out, storage>>

\* the storage service is not used by the analytics functions
StorageUntouched ==
  /\ localStorage = [optionStrategies |-> <<>>, optionStrategiesSyncStatus |-> {}]
  /\ isOnline = FALSE
  /\ supabase = [user |-> FALSE]
  /\ saveCalls = <<>>
  /\ syncRuns = <<>>

-----------------------------------------------------------------------------
(* Scales and program constants *)

Dollar == 1000
Cent == 10
NaN == -99999999
Unlimited == 99999999
SamplePoints == 500
ChartSteps == 200
ChartMargin == 100
Infinity == 999999999

(* Bounds of the explored inputs *)
NumStrikes == 4
MaxContracts == 2
MaxLegs == 5
IterationCap == 600

-----------------------------------------------------------------------------
(* Number helpers *)

Max2(a, b) == IF a >= b THEN a ELSE b
Abs(a) == IF a < 0 THEN -a ELSE a

\* parseFloat(x): a numeric field parses to itself, an unparsable one to NaN
ParseFloat(x) == x

\* parseFloat(x) || 0 : NaN and 0 are falsy
ParseFloatOr0(x) == IF ParseFloat(x) = NaN THEN 0 ELSE ParseFloat(x)

\* parseInt(x) || 1 : NaN and 0 are falsy
ParseIntOr1(x) == IF x = NaN \/ x = 0 THEN 1 ELSE x

\* IEEE arithmetic with NaN operands
FAdd(a, b) == IF a = NaN \/ b = NaN THEN NaN ELSE a + b
FSub(a, b) == IF a = NaN \/ b = NaN THEN NaN ELSE a - b
FMul(a, n) == IF a = NaN \/ n = NaN THEN NaN ELSE a * n
\* Math.max(0, x): NaN if x is NaN
FMax0(a) == IF a = NaN THEN NaN ELSE Max2(0, a)

-----------------------------------------------------------------------------
(* Leg Model: strategyCalculations.js *)

calculateLegPayoff_NoNegate(leg, assetPrice) ==
  LET strike == ParseFloatOr0(leg.strike)
      premium == ParseFloatOr0(leg.premium)
      contracts == ParseIntOr1(leg.contracts)
      payoff == IF leg.type = "Call" THEN Max2(0, assetPrice - strike) - premium
                ELSE IF leg.type = "Put" THEN Max2(0, strike - assetPrice) - premium
                ELSE 0
  IN payoff * contracts

calculateLegPayoff(leg, assetPrice) ==
  LET strike == ParseFloatOr0(leg.strike)
      premium == ParseFloatOr0(leg.premium)
      contracts == ParseIntOr1(leg.contracts)
      payoff0 == IF leg.type = "Call" THEN Max2(0, assetPrice - strike) - premium
                 ELSE IF leg.type = "Put" THEN Max2(0, strike - assetPrice) - premium
                 ELSE 0
      payoff == IF leg.action = "Sell" THEN -payoff0 ELSE payoff0
  IN payoff * contracts

RECURSIVE SumPayoff(_, _, _)
SumPayoff(ls, assetPrice, i) ==
  IF i > Len(ls) THEN 0
  ELSE calculateLegPayoff(ls[i], assetPrice) + SumPayoff(ls, assetPrice, i + 1)

calculateStrategyPayoff(ls, assetPrice) == SumPayoff(ls, assetPrice, 1)

-----------------------------------------------------------------------------
(* Chart curve builder: chartUtils.js, the payoff of one curve point *)

chartLegPayoff(leg, p) ==
  LET strike == ParseFloat(leg.strike)
      premium == ParseFloat(leg.premium)
      contracts == ParseIntOr1(leg.contracts)
      intrinsicValue == IF leg.type = "Put" THEN FMax0(FSub(strike, p))
                        ELSE FMax0(FSub(p, strike))
  IN IF leg.action = "Buy"
     THEN FMul(FSub(intrinsicValue, premium), contracts)
     ELSE FMul(FSub(premium, intrinsicValue), contracts)

RECURSIVE chartSum(_, _, _)
chartSum(ls, p, i) ==
  IF i > Len(ls) THEN 0
  ELSE FAdd(chartLegPayoff(ls[i], p), chartSum(ls, p, i + 1))

chartPointPayoff(ls, p) == chartSum(ls, p, 1)

StrikeOffsets_Near == {-(Dollar \div 10), 0, Dollar \div 10}

\* the offsets of the extra points around a strike: -0.5, -0.1, 0, 0.1, 0.5
StrikeOffsets == {-(Dollar \div 2), -(Dollar \div 10), 0, Dollar \div 10, Dollar \div 2}

\* the prices the loop "for (price = startPrice; price <= endPrice; price += step)"
\* visits, for step > 0
GridPrices(startPrice, endPrice, step) ==
  {startPrice + k * step : k \in 0..((endPrice - startPrice) \div step)}

\* the Set "points" when the loop ends
CurvePrices(ls, startPrice, endPrice, step) ==
  LET strikes == {ParseFloat(ls[i].strike) : i \in 1..Len(ls)} \ {NaN}
      grid == IF startPrice <= endPrice THEN GridPrices(startPrice, endPrice, step)
              ELSE {}
      near == {k \in strikes : \E g \in grid : Abs(g - k) < step}
      extra == {k + off : k \in near, off \in StrikeOffsets}
  IN grid \cup {x \in extra : x >= startPrice /\ x <= endPrice}

\* the ascending sequence of the numbers of S, all within lo..hi
RECURSIVE AscendingSeqIn(_, _, _)
AscendingSeqIn(S, lo, hi) ==
  IF S = {} THEN <<>>
  ELSE IF Cardinality(S) = 1 THEN <<CHOOSE x \in S : TRUE>>
  ELSE LET mid == (lo + hi) \div 2
       IN AscendingSeqIn({x \in S : x <= mid}, lo, mid)
            \o AscendingSeqIn({x \in S : x > mid}, mid + 1, hi)

\* Array.from(set).sort((a, b) => a - b) on numbers other than NaN
AscendingSeq(S) ==
  IF S = {} THEN <<>>
  ELSE AscendingSeqIn(S, CHOOSE x \in S : \A y \in S : x <= y,
                         CHOOSE x \in S : \A y \in S : x >= y)

\* generatePayoffPoints(legs, startPrice, endPrice, step), for step > 0
generatePayoffPoints(ls, startPrice, endPrice, step) ==
  LET xs == AscendingSeq(CurvePrices(ls, startPrice, endPrice, step))
  IN [i \in 1..Len(xs) |-> [x |-> xs[i], y |-> chartPointPayoff(ls, xs[i])]]

-----------------------------------------------------------------------------
(* Sequence helpers *)

\* a === b on Numbers: NaN equals nothing, itself included
StrictEq(a, b) == a /= NaN /\ b /= NaN /\ a = b

Perms(n) == {p \in [1..n -> 1..n] : \A i, j \in 1..n : i /= j => p[i] /= p[j]}

\* insertion of leg x into a list sorted by strike, after the legs that
\* compare equal to it (Array.prototype.sort is stable)
RECURSIVE InsertByStrike(_, _)
InsertByStrike(x, s) ==
  IF s = <<>> THEN <<x>>
  ELSE IF ParseFloat(x.strike) < ParseFloat(Head(s).strike)
       THEN <<x>> \o s
       ELSE <<Head(s)>> \o InsertByStrike(x, Tail(s))

StableSortByStrike_AsEntered(ls, i) == SubSeq(ls, 1, i)

RECURSIVE StableSortByStrike(_, _)
StableSortByStrike(ls, i) ==
  IF i = 0 THEN <<>>
  ELSE InsertByStrike(ls[i], StableSortByStrike(ls, i - 1))

HasNaNStrike(ls) == \E i \in 1..Len(ls) : ParseFloat(ls[i].strike) = NaN

\* legs.sort((a, b) => parseFloat(a.strike) - parseFloat(b.strike)):
\* the outcomes the sort can produce.  With every strike parsable it is the
\* stable ascending order.  A comparator that returns NaN is inconsistent and
\* the order is implementation-defined: any permutation.
SortedLegsOf(ls) ==
  IF HasNaNStrike(ls)
  THEN {[i \in 1..Len(ls) |-> ls[p[i]]] : p \in Perms(Len(ls))}
  ELSE {StableSortByStrike(ls, Len(ls))}

\* [...new Set(legs.map(parseFloat).sort((a, b) => a - b))]: the distinct
\* strikes (NaN counted once) in the order the sort leaves them
UniqueStrikesOf(ls) ==
  LET S == {ParseFloat(ls[i].strike) : i \in 1..Len(ls)}
      n == Cardinality(S)
  IN IF NaN \in S
     THEN {u \in [1..n -> S] : \A i, j \in 1..n : i /= j => u[i] /= u[j]}
     ELSE {AscendingSeq(S)}

\* legs.map(parseFloat).filter(s => !isNaN(s) && s > 0), as a set
ValidStrikes(ls) ==
  {s \in {ParseFloat(ls[i].strike) : i \in 1..Len(ls)} : s /= NaN /\ s > 0}

-----------------------------------------------------------------------------
(* Strategy Classifier: strategyCalculations.js, detectStrategy *)

\* optionType: 'Calls', 'Puts' or 'Mixed' (an empty list has every leg a Call)
OptionTypeOf(ls) ==
  IF \A i \in 1..Len(ls) : ls[i].type = "Call" THEN "Calls"
  ELSE IF \A i \in 1..Len(ls) : ls[i].type = "Put" THEN "Puts"
  ELSE "Mixed"

RECURSIVE NetPremium_PerLeg(_, _)
NetPremium_PerLeg(ls, i) ==
  IF i > Len(ls) THEN 0
  ELSE LET premium == ParseFloatOr0(ls[i].premium)
       IN (IF ls[i].action = "Sell" THEN premium ELSE -premium)
            + NetPremium_PerLeg(ls, i + 1)

\* the net premium, Sell counted positive and every other action negative
RECURSIVE NetPremium(_, _)
NetPremium(ls, i) ==
  IF i > Len(ls) THEN 0
  ELSE LET premium == ParseFloatOr0(ls[i].premium)
           contracts == ParseIntOr1(ls[i].contracts)
       IN (IF ls[i].action = "Sell" THEN premium * contracts
           ELSE -(premium * contracts)) + NetPremium(ls, i + 1)

SingleLegName_Swapped(ls) ==
  IF ls[1].action = "Buy"
  THEN [name |-> "Naked " \o ls[1].type, type |-> "Single Leg"]
  ELSE [name |-> "Long " \o ls[1].type, type |-> "Single Leg"]

\* the name and type of a 1-leg list
SingleLegName(ls) ==
  IF ls[1].action = "Buy"
  THEN [name |-> "Long " \o ls[1].type, type |-> "Single Leg"]
  ELSE [name |-> "Naked " \o ls[1].type, type |-> "Single Leg"]

\* the name of two same-type legs sorted by strike: leg1 the lower, leg2 the higher
SpreadName(optionType, leg1, leg2) ==
  IF optionType = "Calls"
  THEN IF leg1.action = "Buy" /\ leg2.action = "Sell" THEN "Bull Call Spread"
       ELSE IF leg1.action = "Sell" /\ leg2.action = "Buy" THEN "Bear Call Spread"
       ELSE optionType \o " Vertical Spread"
  ELSE IF optionType = "Puts"
  THEN IF leg1.action = "Buy" /\ leg2.action = "Sell" THEN "Bull Put Spread"
       ELSE IF leg1.action = "Sell" /\ leg2.action = "Buy" THEN "Bear Put Spread"
       ELSE optionType \o " Vertical Spread"
  ELSE optionType \o " Vertical Spread"

\* the name and type of a 2-leg list
TwoLegName(ls, optionType) ==
  LET uniqueValidStrikes == ValidStrikes(ls)
  IN IF optionType /= "Mixed"
     THEN [name |-> IF Cardinality(uniqueValidStrikes) = 2
                    THEN LET s == StableSortByStrike(ls, 2)
                         IN SpreadName(optionType, s[1], s[2])
                    ELSE optionType \o " Vertical Spread",
           type |-> "Vertical Spread"]
     ELSE IF Cardinality(uniqueValidStrikes) = 1
          THEN [name |-> "Straddle", type |-> "Combination"]
          ELSE IF Cardinality(uniqueValidStrikes) = 2
               THEN [name |-> "Strangle", type |-> "Combination"]
               ELSE [name |-> "Custom Strategy", type |-> "Custom"]

\* outerBuys && innerSells of a 4-leg list sorted by strike
IsReverseShape(sortedLegs) ==
  LET outerBuys == sortedLegs[1].action = "Buy" /\ sortedLegs[4].action = "Buy"
      innerSells == sortedLegs[2].action = "Sell" /\ sortedLegs[3].action = "Sell"
  IN outerBuys /\ innerSells

middleStrikeCount_AsTwo(ls, uniqueStrikes) == 2

\* the number of legs on the middle one of 3 distinct strikes
middleStrikeCount(ls, uniqueStrikes) ==
  LET AtMiddle(leg) == StrictEq(ParseFloat(leg.strike), uniqueStrikes[2])
  IN Len(SelectSeq(ls, AtMiddle))

\* the name, type and isReverse of a 4-leg list; uniqueStrikes and sortedLegs
\* are the outcomes of the two sorts
FourLegName(ls, optionType, uniqueStrikes, sortedLegs) ==
  IF optionType = "Mixed" /\ Len(uniqueStrikes) = 4
  THEN IF IsReverseShape(sortedLegs)
       THEN [name |-> "Reverse Iron Condor", type |-> "Condor", isReverse |-> TRUE]
       ELSE [name |-> "Iron Condor", type |-> "Condor", isReverse |-> FALSE]
  ELSE IF optionType /= "Mixed" /\ Len(uniqueStrikes) = 3
  THEN LET AtOuter(leg) == \/ StrictEq(ParseFloat(leg.strike), uniqueStrikes[1])
                           \/ StrictEq(ParseFloat(leg.strike), uniqueStrikes[3])
           \* Array.prototype.every, true of the empty array
           EveryIs(s, action) == \A i \in 1..Len(s) : s[i].action = action
           outerLegs == SelectSeq(ls, AtOuter)
       IN IF middleStrikeCount(ls, uniqueStrikes) = 2
          THEN [name |-> IF EveryIs(outerLegs, "Buy")
                         THEN "Long " \o optionType \o " Butterfly"
                         ELSE IF EveryIs(outerLegs, "Sell")
                              THEN "Short " \o optionType \o " Butterfly"
                              ELSE "Custom Strategy",
                type |-> "Butterfly", isReverse |-> FALSE]
          ELSE [name |-> "Custom Strategy", type |-> "Custom", isReverse |-> FALSE]
  ELSE IF optionType /= "Mixed" /\ Len(uniqueStrikes) = 4
  THEN IF IsReverseShape(sortedLegs)
       THEN [name |-> "Reverse " \o optionType \o " Condor", type |-> "Condor",
             isReverse |-> TRUE]
       ELSE [name |-> optionType \o " Condor", type |-> "Condor", isReverse |-> FALSE]
  ELSE [name |-> "Custom Strategy", type |-> "Custom", isReverse |-> FALSE]

\* detectStrategy(legs), given the outcomes of its two sorts
detectStrategy(ls, uniqueStrikes, sortedLegs) ==
  LET numLegs == Len(ls)
      optionType == OptionTypeOf(ls)
      isCredit == NetPremium(ls, 1) > 0
      direction == IF isCredit THEN "Short" ELSE "Long"
      shape == IF numLegs = 1
               THEN SingleLegName(ls) @@ [isReverse |-> FALSE]
               ELSE IF numLegs = 2
               THEN TwoLegName(ls, optionType) @@ [isReverse |-> FALSE]
               ELSE IF numLegs = 4
               THEN FourLegName(ls, optionType, uniqueStrikes, sortedLegs)
               ELSE [name |-> "Custom Strategy", type |-> "Custom", isReverse |-> FALSE]
  IN [name |-> shape.name, type |-> shape.type, direction |-> direction,
      isCredit |-> isCredit, isReverse |-> shape.isReverse, optionType |-> optionType]

\* every result detectStrategy(legs) can return.  sortedLegs is read only with
\* 4 distinct strikes and the order of uniqueStrikes only with 3, so one of
\* the two sorts is enumerated at a time.
DetectOutcomes(ls) ==
  LET us == UniqueStrikesOf(ls)
      u0 == CHOOSE u \in us : TRUE
  IN IF Len(ls) = 4 /\ Len(u0) = 4
     THEN {detectStrategy(ls, u0, s) : s \in SortedLegsOf(ls)}
     ELSE {detectStrategy(ls, u, ls) : u \in us}

\* the caller's array after detectStrategy: the 2-leg same-type branch sorts
\* legs in place (both strikes are then valid and distinct)
LegsAfterDetect(ls) ==
  IF Len(ls) = 2 /\ OptionTypeOf(ls) /= "Mixed" /\ Cardinality(ValidStrikes(ls)) = 2
  THEN StableSortByStrike(ls, 2)
  ELSE ls

-----------------------------------------------------------------------------
(* The explored inputs *)

Actions == {"Buy", "Sell"}
Types == {"Call", "Put"}

\* parsable positive strikes: 100, 110, ... dollars
PositiveStrikes == {(9 + k) * 10 * Dollar : k \in 1..NumStrikes}
\* malformed strikes: unparsable, zero, negative
BadStrikes == {NaN, 0, -(10 * Dollar)}

LegsOver(strikes, premiums, contracts) ==
  [action : Actions, type : Types, strike : strikes, premium : premiums,
   contracts : contracts]

ListsOf(n, S) == [1..n -> S]

\* A 4-leg list has at most 4 distinct strikes and the 4-leg rules read the
\* strikes only through their order and equality, so 4 values cover them; a
\* malformed strike is explored on the first leg entered.
FourLegStrikes == {90 * Dollar, 95 * Dollar, 105 * Dollar, 110 * Dollar}

FourLegLists ==
  LET good == LegsOver(FourLegStrikes, {5 * Dollar}, {1})
      bad == LegsOver({NaN, 0}, {5 * Dollar}, {1})
  IN {l \in ListsOf(4, good \cup bad) :
        /\ l[1] \in good \cup bad
        /\ \A i \in 2..4 : l[i] \in good}

ClassifyInputs ==
  ListsOf(1, LegsOver(PositiveStrikes \cup BadStrikes, {5 * Dollar}, {1}))
  \cup ListsOf(2, LegsOver(PositiveStrikes \cup BadStrikes, {5 * Dollar}, {1}))
  \cup ListsOf(3, LegsOver({100 * Dollar, 110 * Dollar}, {5 * Dollar}, {1}))
  \cup FourLegLists
  \cup UNION {ListsOf(n, LegsOver({100 * Dollar}, {5 * Dollar}, {1})) : n \in 5..MaxLegs}

-----------------------------------------------------------------------------
(* The classifier as a state machine *)

InitClassify ==
  /\ legs \in ClassifyInputs
  /\ given = legs
  /\ price = 0
  /\ pc = "init"
  /\ out = [name |-> ""]
  /\ StorageUntouched

\* strategyDetails = detectStrategy(legs)
DetectStrategy ==
  /\ pc = "init"
  /\ \E r \in DetectOutcomes(legs) : out' = r
  /\ legs' = LegsAfterDetect(legs)
  /\ pc' = "detect"
  /\ UNCHANGED <<given, price, storage>>

NextClassify == DetectStrategy

SpecClassify == InitClassify /\ [][NextClassify]_vars

-----------------------------------------------------------------------------
(* Metrics Engine: strategyCalculations.js, calculateStrategyMetrics *)

\* the quotient n / d rounded to the nearest integer, halves away from zero
RoundDiv(n, d) ==
  LET an == Abs(n)
      ad == Abs(d)
      q == (2 * an + ad) \div (2 * ad)
  IN IF (n < 0) = (d < 0) THEN q ELSE -q

\* parseFloat(x.toFixed(2)) of a whole number of mills
ToFixed2(x) == RoundDiv(x, Cent) * Cent

\* parseFloat((n / d).toFixed(2)) of a quotient of mills, d /= 0
ToFixed2Ratio(n, d) == RoundDiv(n, d * Cent) * Cent

SetMax(S) == CHOOSE x \in S : \A y \in S : x >= y
SetMin(S) == CHOOSE x \in S : \A y \in S : x <= y

\* the strikes that set the simulated range: (parseFloat(strike) || 0) > 0
RangeStrikes(ls) == {x \in {ParseFloatOr0(ls[i].strike) : i \in 1..Len(ls)} : x > 0}

minStrike(ls) == IF RangeStrikes(ls) /= {} THEN SetMin(RangeStrikes(ls)) ELSE 10 * Dollar
maxStrike(ls) == IF RangeStrikes(ls) /= {} THEN SetMax(RangeStrikes(ls)) ELSE 100 * Dollar

priceRangeStart(ls) == Max2(0, minStrike(ls) \div 2)
priceRangeEnd_AtMaxStrike(ls) == maxStrike(ls)
priceRangeEnd(ls) == (maxStrike(ls) * 3) \div 2
priceStep(ls) == (priceRangeEnd(ls) - priceRangeStart(ls)) \div SamplePoints

\* The simulation loop
\*   for (price = priceRangeStart; price <= priceRangeEnd; price += priceStep)
\* takes sample k at priceRangeStart + k * priceStep.  The loop adds priceStep
\* in floating point, so the sample at priceRangeEnd itself (k = SamplePoints)
\* is taken or not as the rounding falls: the last sample is SamplePoints - 1
\* or SamplePoints.
pnlCurve(ls) ==
  LET start == priceRangeStart(ls)
      step == priceStep(ls)
  IN [k \in 0..SamplePoints |->
        LET p == start + k * step
        IN [price |-> p, pnl |-> calculateStrategyPayoff(ls, p)]]

MaxPnl_FirstSample(curve, lo, hi) == curve[lo].pnl

\* the running maximum and minimum of pnl over samples lo..hi
RECURSIVE MaxPnl(_, _, _)
MaxPnl(curve, lo, hi) ==
  IF lo = hi THEN curve[lo].pnl
  ELSE LET mid == (lo + hi) \div 2
           l == MaxPnl(curve, lo, mid)
           r == MaxPnl(curve, mid + 1, hi)
       IN IF r > l THEN r ELSE l

RECURSIVE MinPnl(_, _, _)
MinPnl(curve, lo, hi) ==
  IF lo = hi THEN curve[lo].pnl
  ELSE LET mid == (lo + hi) \div 2
           l == MinPnl(curve, lo, mid)
           r == MinPnl(curve, mid + 1, hi)
       IN IF r < l THEN r ELSE l

\* the sign change tested between two consecutive samples
SignChange(p1, p2) ==
  (p1.pnl <= 0 /\ p2.pnl > 0) \/ (p1.pnl >= 0 /\ p2.pnl < 0)

\* breakevenPrice = p1.price - p1.pnl * (p2.price - p1.price) / (p2.pnl - p1.pnl)
\* as the quotient n / d
Crossing(p1, p2) ==
  [n |-> p1.price * (p2.pnl - p1.pnl) - p1.pnl * (p2.price - p1.price),
   d |-> p2.pnl - p1.pnl]

\* breakevenPrice >= 0
NotNegative(c) == c.n = 0 \/ ((c.n > 0) = (c.d > 0))

\* the state of the two loops once the samples 0..SamplePoints - 1 are done:
\* the samples (with the one at k = SamplePoints, used only if it is taken),
\* the running extremes and the pairs (k, k + 1) that pushed a breakeven
SimulationLoop(ls) ==
  LET curve == pnlCurve(ls)
  IN [curve |-> curve,
      maxProfit |-> MaxPnl(curve, 0, SamplePoints - 1),
      maxLoss |-> MinPnl(curve, 0, SamplePoints - 1),
      pushed |-> {k \in 0..(SamplePoints - 2) :
                    /\ SignChange(curve[k], curve[k + 1])
                    /\ NotNegative(Crossing(curve[k], curve[k + 1]))}]

\* the same once the loops end at sample last
SimulationEnd(loop, last) ==
  LET final == loop.curve[SamplePoints]
      prev == loop.curve[SamplePoints - 1]
  IN IF last = SamplePoints
     THEN [curve |-> loop.curve,
           maxProfit |-> IF final.pnl > loop.maxProfit THEN final.pnl ELSE loop.maxProfit,
           maxLoss |-> IF final.pnl < loop.maxLoss THEN final.pnl ELSE loop.maxLoss,
           pushed |-> IF SignChange(prev, final) /\ NotNegative(Crossing(prev, final))
                      THEN loop.pushed \cup {SamplePoints - 1}
                      ELSE loop.pushed]
     ELSE loop

uniqueBreakevens_Descending(sim) ==
  LET a == AscendingSeq({LET c == Crossing(sim.curve[k], sim.curve[k + 1])
                         IN ToFixed2Ratio(c.n, c.d) : k \in sim.pushed})
  IN [i \in 1..Len(a) |-> a[Len(a) + 1 - i]]

\* uniqueBreakevens: the pushed crossings rounded to 2 decimals, without
\* duplicates, ascending
uniqueBreakevens(sim) ==
  AscendingSeq({LET c == Crossing(sim.curve[k], sim.curve[k + 1])
                IN ToFixed2Ratio(c.n, c.d) : k \in sim.pushed})

SingleLegOverride_None(ls, sampledMaxProfit, sampledMaxLoss) ==
  [maxProfit |-> ToFixed2(sampledMaxProfit), maxLoss |-> ToFixed2(sampledMaxLoss)]

\* the returned maxProfit and maxLoss: the single-leg overrides of the sampled
\* extremes, the string 'Unlimited' or a number rounded to 2 decimals
SingleLegOverride(ls, sampledMaxProfit, sampledMaxLoss) ==
  LET leg == ls[1]
      bound == Max2(0, ParseFloatOr0(leg.strike) - ParseFloatOr0(leg.premium))
                 * ParseIntOr1(leg.contracts)
  IN IF Len(ls) /= 1
     THEN [maxProfit |-> ToFixed2(sampledMaxProfit), maxLoss |-> ToFixed2(sampledMaxLoss)]
     ELSE IF leg.action = "Buy" /\ leg.type = "Call"
     THEN [maxProfit |-> Unlimited, maxLoss |-> ToFixed2(sampledMaxLoss)]
     ELSE IF leg.action = "Sell" /\ leg.type = "Call"
     THEN [maxProfit |-> ToFixed2(sampledMaxProfit), maxLoss |-> Unlimited]
     ELSE IF leg.action = "Buy" /\ leg.type = "Put"
     THEN [maxProfit |-> ToFixed2(bound), maxLoss |-> ToFixed2(sampledMaxLoss)]
     ELSE IF leg.action = "Sell" /\ leg.type = "Put"
     THEN [maxProfit |-> ToFixed2(sampledMaxProfit), maxLoss |-> ToFixed2(bound)]
     ELSE [maxProfit |-> ToFixed2(sampledMaxProfit), maxLoss |-> ToFixed2(sampledMaxLoss)]

\* roi, in hundredths of a percent; marginRequired 0 stands for "not given"
Roi(netPremium, marginRequired) ==
  IF marginRequired /= 0 THEN RoundDiv(netPremium * 100 * 100, marginRequired) ELSE 0

EmptyMetrics_Custom ==
  [netPremium |-> 0, maxProfit |-> 0, maxLoss |-> 0, breakevens |-> <<>>,
   probProfit |-> [number |-> 0], roi |-> 0, strategyName |-> "Custom Strategy",
   strategyType |-> "Custom", direction |-> "Long", isCredit |-> FALSE,
   isReverse |-> FALSE, optionType |-> "Calls"]

\* the record calculateStrategyMetrics returns for an empty list
EmptyMetrics ==
  [netPremium |-> 0, maxProfit |-> 0, maxLoss |-> 0, breakevens |-> <<>>,
   probProfit |-> [number |-> 0], roi |-> 0, strategyName |-> "N/A", strategyType |-> "N/A",
   direction |-> "N/A", isCredit |-> FALSE, isReverse |-> FALSE, optionType |-> "N/A"]

\* `${x ? `$${x.toFixed(2)}` : label}`: the strike to 2 decimals, or the
\* label when x is falsy (0, NaN, undefined, null)
StrikeText(x, label) ==
  IF x = NaN \/ x = 0 THEN [label |-> label] ELSE [dollars |-> ToFixed2(x)]

\* an explanation: the template, with {} where the strikes are written in
Explanation(text, strikes) == [text |-> text, strikes |-> strikes]

\* getSimplifiedExplanation({strategyName, strategyType}, legs), given the
\* outcome of its sort of the 4 legs.  undefined (no valid strike) and null
\* (no middle strike) are falsy like NaN and are written NaN here.
getSimplifiedExplanation(strategyName, ls, sortedLegs) ==
  LET sortedStrikes == AscendingSeq(ValidStrikes(ls))
      lowerStrike == IF sortedStrikes = <<>> THEN NaN ELSE sortedStrikes[1]
      higherStrike == IF sortedStrikes = <<>> THEN NaN
                      ELSE sortedStrikes[Len(sortedStrikes)]
      middleStrike == IF Len(sortedStrikes) = 3 THEN sortedStrikes[2] ELSE NaN
      strike(k) == IF Len(ls) = 4 THEN ParseFloat(sortedLegs[k].strike) ELSE NaN
      lower == StrikeText(lowerStrike, "lower strike")
      higher == StrikeText(higherStrike, "higher strike")
      middle == StrikeText(middleStrike, "middle strike")
      explanations(maxProfitExplanation, maxLossExplanation) ==
        [maxProfitExplanation |-> maxProfitExplanation,
         maxLossExplanation |-> maxLossExplanation]
  IN CASE strategyName = "Naked Call" ->
            explanations(
              Explanation("You get max profit when the asset stays below strike.", <<>>),
              Explanation("You get max loss when the asset rises far above strike.", <<>>))
       [] strategyName = "Naked Put" ->
            explanations(
              Explanation("You get max profit when the asset stays above strike.", <<>>),
              Explanation("You get max loss when the asset drops to zero.", <<>>))
       [] strategyName = "Long Call" ->
            explanations(
              Explanation("You get max profit when the asset rises well above strike.", <<>>),
              Explanation("You get max loss when the asset stays below strike.", <<>>))
       [] strategyName = "Long Put" ->
            explanations(
              Explanation("You get max profit when the asset drops well below strike.", <<>>),
              Explanation("You get max loss when the asset stays above strike.", <<>>))
       [] strategyName = "Bull Call Spread" ->
            explanations(
              Explanation("You get max profit when price ends above higher strike ({}).",
                          <<higher>>),
              Explanation("You get max loss when price stays below lower strike ({}).",
                          <<lower>>))
       [] strategyName = "Bear Put Spread" ->
            explanations(
              Explanation("You get max profit when price stays above higher strike ({}).",
                          <<higher>>),
              Explanation("You get max loss when price drops below lower strike ({}).",
                          <<lower>>))
       [] strategyName = "Bear Call Spread" ->
            explanations(
              Explanation("You get max profit when price stays below lower strike ({}).",
                          <<lower>>),
              Explanation("You get max loss when price rises above higher strike ({}).",
                          <<higher>>))
       [] strategyName = "Bull Put Spread" ->
            explanations(
              Explanation("You get max profit when price stays above higher strike ({}).",
                          <<higher>>),
              Explanation("You get max loss when price drops below lower strike ({}).",
                          <<lower>>))
       [] strategyName = "Iron Condor" ->
            explanations(
              Explanation(
                "You get max profit when price stays between short strikes ({} and {}).",
                <<StrikeText(strike(2), "short strike 2"),
                  StrikeText(strike(3), "short strike 3")>>),
              Explanation(
                "You get max loss when price goes below or above long wings ({} or {}).",
                <<StrikeText(strike(1), "long wing 1"),
                  StrikeText(strike(4), "long wing 4")>>))
       [] strategyName = "Reverse Iron Condor" ->
            explanations(
              Explanation(
                "You get max profit when price moves sharply outside short strikes ({} or {}).",
                <<StrikeText(strike(2), "short strike 2"),
                  StrikeText(strike(3), "short strike 3")>>),
              Explanation(
                "You get max loss when price stays between middle strikes ({} and {}).",
                <<StrikeText(strike(2), "middle strike 2"),
                  StrikeText(strike(3), "middle strike 3")>>))
       [] strategyName \in {"Long Call Butterfly", "Long Put Butterfly"} ->
            explanations(
              Explanation("You get max profit when price ends exactly at middle strike ({}).",
                          <<middle>>),
              Explanation("You get max loss when price ends outside wings ({} or {}).",
                          <<lower, higher>>))
       [] strategyName \in {"Short Call Butterfly", "Short Put Butterfly"} ->
            explanations(
              Explanation("You get max profit when price ends outside wings ({} or {}).",
                          <<lower, higher>>),
              Explanation("You get max loss when price ends exactly at middle strike ({}).",
                          <<middle>>))
       [] strategyName \in {"Put Condor", "Call Condor"} ->
            explanations(
              Explanation("You get max profit when price ends near middle strikes.", <<>>),
              Explanation("You get max loss when price moves beyond wings.", <<>>))
       [] OTHER ->
            explanations(Explanation("", <<>>), Explanation("", <<>>))

\* what calculateStrategyMetrics gets from detectStrategy(legs) and from
\* getSimplifiedExplanation(..., legs).  Both sort a copy of the same 4 legs
\* with the same comparator, so both see the same order.
MetricsOutcomes(ls) ==
  LET us == UniqueStrikesOf(ls)
      u0 == CHOOSE u \in us : TRUE
      outcome(u, s) ==
        LET strategyDetails == detectStrategy(ls, u, s)
        IN [strategyDetails |-> strategyDetails,
            explanations |-> getSimplifiedExplanation(strategyDetails.name, ls, s)]
  IN IF Len(ls) = 4 /\ Len(u0) = 4
     THEN {outcome(u0, s) : s \in SortedLegsOf(ls)}
     ELSE {outcome(u, ls) : u \in us}

\* calculateStrategyMetrics(legs, assetPrice, marginRequired) on a non-empty
\* list, given the classifier's result and the simulation's end state
calculateStrategyMetrics(ls, marginRequired, strategyDetails, sim, explanations) ==
  LET netPremium == NetPremium(ls, 1)
      extremes == SingleLegOverride(ls, sim.maxProfit, sim.maxLoss)
  IN [netPremium |-> ToFixed2(netPremium),
      maxProfit |-> extremes.maxProfit,
      maxLoss |-> extremes.maxLoss,
      breakevens |-> uniqueBreakevens(sim),
      probProfit |-> [string |-> "N/A"],
      roi |-> Roi(netPremium, marginRequired),
      strategyName |-> strategyDetails.name,
      strategyType |-> strategyDetails.type,
      direction |-> strategyDetails.direction,
      isCredit |-> strategyDetails.isCredit,
      isReverse |-> strategyDetails.isReverse,
      optionType |-> strategyDetails.optionType,
      maxProfitExplanation |-> explanations.maxProfitExplanation,
      maxLossExplanation |-> explanations.maxLossExplanation]

-----------------------------------------------------------------------------
(* Vocabulary of the classification rules, stated on the list as entered *)

AllParsable(ls) == \A i \in 1..Len(ls) : ls[i].strike /= NaN
AllValid(ls) == \A i \in 1..Len(ls) : ls[i].strike /= NaN /\ ls[i].strike > 0
SomeBadStrike(ls) == \E i \in 1..Len(ls) : ls[i].strike = NaN \/ ls[i].strike <= 0
DistinctStrikes(ls) == {ls[i].strike : i \in 1..Len(ls)}
SameType(ls) == \A i, j \in 1..Len(ls) : ls[i].type = ls[j].type

\* the leg holding the k-th lowest strike of a list of distinct strikes
LegAtRank(ls, k) ==
  ls[CHOOSE i \in 1..Len(ls) :
       Cardinality({j \in 1..Len(ls) : ls[j].strike < ls[i].strike}) = k - 1]

\* the k-th lowest of the distinct strikes
StrikeAtRank(ls, k) ==
  CHOOSE x \in DistinctStrikes(ls) :
    Cardinality({y \in DistinctStrikes(ls) : y < x}) = k - 1

HeldBy(ls, x) == {i \in 1..Len(ls) : ls[i].strike = x}

OuterBuyInnerSell(ls) ==
  /\ LegAtRank(ls, 1).action = "Buy" /\ LegAtRank(ls, 4).action = "Buy"
  /\ LegAtRank(ls, 2).action = "Sell" /\ LegAtRank(ls, 3).action = "Sell"

ButterflyShape(ls) ==
  /\ Len(ls) = 4 /\ SameType(ls)
  /\ Cardinality(DistinctStrikes(ls)) = 3
  /\ Cardinality(HeldBy(ls, StrikeAtRank(ls, 2))) = 2

\* the shapes the classification table lists
ListedShape(ls) ==
  \/ Len(ls) = 1
  \/ /\ Len(ls) = 2 /\ SameType(ls)
     /\ Cardinality(DistinctStrikes(ls)) = 2
     /\ ls[1].action /= ls[2].action
  \/ Len(ls) = 2 /\ ~SameType(ls)
  \/ Len(ls) = 4 /\ Cardinality(DistinctStrikes(ls)) = 4
  \/ ButterflyShape(ls)

IsCustom(r) == r.name = "Custom Strategy" /\ r.type = "Custom"

-----------------------------------------------------------------------------
(* Claims about the classifier, under SpecClassify *)

\* C5: for every 4-leg list with 4 distinct strikes, isReverse is true and
\* the name starts with 'Reverse' exactly when the two outer legs are Buy and
\* the two inner legs are Sell; the name is '[Reverse ]Iron Condor' for mixed
\* types and '[Reverse ]Call Condor' / '[Reverse ]Put Condor' for one type;
\* the category is 'Condor'.
C5_CondorNames ==
  (pc = "detect" /\ Len(given) = 4 /\ AllParsable(given)
     /\ Cardinality(DistinctStrikes(given)) = 4)
  => LET rev == OuterBuyInnerSell(given)
         base == IF ~SameType(given) THEN "Iron Condor"
                 ELSE IF given[1].type = "Call" THEN "Call Condor"
                 ELSE "Put Condor"
     IN /\ out.isReverse = rev
        /\ out.type = "Condor"
        /\ out.name = (IF rev THEN "Reverse " \o base ELSE base)

\* C6 as stated: for every 2-leg list, same type and exactly 2 distinct
\* strikes give the spread named by the (lower, higher) actions with category
\* 'Vertical Spread'; mixed types give 'Straddle' on 1 distinct strike and
\* 'Strangle' on 2, category 'Combination'.
C6_TwoLegRule(ls, r) ==
  /\ (SameType(ls) /\ Cardinality(DistinctStrikes(ls)) = 2)
     => LET lo == LegAtRank(ls, 1)
            hi == LegAtRank(ls, 2)
        IN /\ r.type = "Vertical Spread"
           /\ (lo.type = "Call" /\ lo.action = "Buy" /\ hi.action = "Sell")
                => r.name = "Bull Call Spread"
           /\ (lo.type = "Call" /\ lo.action = "Sell" /\ hi.action = "Buy")
                => r.name = "Bear Call Spread"
           /\ (lo.type = "Put" /\ lo.action = "Buy" /\ hi.action = "Sell")
                => r.name = "Bull Put Spread"
           /\ (lo.type = "Put" /\ lo.action = "Sell" /\ hi.action = "Buy")
                => r.name = "Bear Put Spread"
  /\ (~SameType(ls) /\ Cardinality(DistinctStrikes(ls)) = 1)
     => (r.name = "Straddle" /\ r.type = "Combination")
  /\ (~SameType(ls) /\ Cardinality(DistinctStrikes(ls)) = 2)
     => (r.name = "Strangle" /\ r.type = "Combination")

C6_Original ==
  (pc = "detect" /\ Len(given) = 2
     /\ \A i \in 1..2 : given[i].strike /= NaN /\ given[i].strike >= 0)
  => C6_TwoLegRule(given, out)

\* C6 as amended: the rule of C6 holds for every 2-leg list whose two
\* strikes are parsable and greater than 0, in either order of entry.
C6_TwoLegValidStrikes ==
  (pc = "detect" /\ Len(given) = 2 /\ AllValid(given))
  => C6_TwoLegRule(given, out)

\* a Bull Call Spread entered with the higher strike first
C6_Witness ==
  /\ pc = "detect" /\ Len(given) = 2
  /\ given[1].type = "Call" /\ given[2].type = "Call"
  /\ given[1].strike = 110 * Dollar /\ given[1].action = "Sell"
  /\ given[2].strike = 100 * Dollar /\ given[2].action = "Buy"
  /\ out.name = "Bull Call Spread"

\* C7: a 4-leg list of one type with 3 distinct strikes, the middle one held
\* by exactly 2 legs, has category 'Butterfly', and name 'Long Call Butterfly'
\* / 'Long Put Butterfly' when both outer legs are Buy, 'Short Call
\* Butterfly' / 'Short Put Butterfly' when both are Sell.
C7_ButterflyNames ==
  (pc = "detect" /\ AllParsable(given) /\ ButterflyShape(given))
  => LET word == IF given[1].type = "Call" THEN "Call" ELSE "Put"
         outer == {i \in 1..4 : given[i].strike /= StrikeAtRank(given, 2)}
     IN /\ out.type = "Butterfly"
        /\ (\A i \in outer : given[i].action = "Buy")
             => out.name = "Long " \o word \o " Butterfly"
        /\ (\A i \in outer : given[i].action = "Sell")
             => out.name = "Short " \o word \o " Butterfly"

\* C8: a 1-leg list has category 'Single Leg', name 'Long Call' / 'Long Put'
\* for Buy and 'Naked Call' / 'Naked Put' for Sell, and composition 'Calls'
\* for a Call, 'Puts' for a Put.
C8_SingleLeg ==
  (pc = "detect" /\ Len(given) = 1)
  => LET leg == given[1]
     IN /\ out.type = "Single Leg"
        /\ out.name = (IF leg.action = "Buy"
                       THEN (IF leg.type = "Call" THEN "Long Call" ELSE "Long Put")
                       ELSE (IF leg.type = "Call" THEN "Naked Call" ELSE "Naked Put"))
        /\ out.optionType = (IF leg.type = "Call" THEN "Calls" ELSE "Puts")

\* classify([{Buy, Call, 100, 5, 1}])
C8_Witness ==
  /\ pc = "detect"
  /\ given = <<[action |-> "Buy", type |-> "Call", strike |-> 100 * Dollar,
                premium |-> 5 * Dollar, contracts |-> 1]>>
  /\ out.name = "Long Call" /\ out.type = "Single Leg" /\ out.optionType = "Calls"

C10_BadStrikeIsCustom ==
  (pc = "detect" /\ SomeBadStrike(given)) => IsCustom(out)

-----------------------------------------------------------------------------
(* The payoff functions as a state machine *)

\* legs as a form can hand them over: any field may be unparsable, the
\* contracts may be 0, the type may be unset
LooseLegs ==
  [action : Actions, type : Types \cup {""},
   strike : PositiveStrikes \cup BadStrikes,
   premium : {NaN, 0, 5 * Dollar},
   contracts : {NaN} \cup (0..MaxContracts)]

PairLegs ==
  [action : Actions, type : Types \cup {""}, strike : {NaN, 100 * Dollar},
   premium : {NaN, 5 * Dollar}, contracts : {MaxContracts}]

PayoffInputs == ListsOf(1, LooseLegs) \cup ListsOf(2, PairLegs)

PayoffPrices == PositiveStrikes \cup {0, 95 * Dollar}

CurveStarts == {95 * Dollar}
CurveEnds == {105 * Dollar, 120 * Dollar}
CurveSteps == {Dollar, 5 * Dollar, 20 * Dollar}

InitPayoff ==
  /\ legs \in PayoffInputs
  /\ given = legs
  /\ price \in PayoffPrices
  /\ pc = "init"
  /\ out = [value |-> 0]
  /\ StorageUntouched

\* calculateLegPayoff(legs[i], price)
CalculateLegPayoff ==
  /\ pc = "init"
  /\ \E i \in 1..Len(legs) :
       out' = [leg |-> i, value |-> calculateLegPayoff(legs[i], price)]
  /\ pc' = "legPayoff"
  /\ UNCHANGED <<legs, given, price, storage>>

\* calculateStrategyPayoff(legs, price)
CalculateStrategyPayoff ==
  /\ pc = "init"
  /\ out' = [value |-> calculateStrategyPayoff(legs, price)]
  /\ pc' = "strategyPayoff"
  /\ UNCHANGED <<legs, given, price, storage>>

\* generatePayoffPoints(legs, startPrice, endPrice, step)
GeneratePayoffPoints ==
  /\ pc = "init"
  /\ \E startPrice \in CurveStarts, endPrice \in CurveEnds, step \in CurveSteps :
       out' = [startPrice |-> startPrice, endPrice |-> endPrice, step |-> step,
               points |-> generatePayoffPoints(legs, startPrice, endPrice, step)]
  /\ pc' = "curve"
  /\ UNCHANGED <<legs, given, price, storage>>

NextPayoff == CalculateLegPayoff \/ CalculateStrategyPayoff \/ GeneratePayoffPoints

SpecPayoff == InitPayoff /\ [][NextPayoff]_vars

-----------------------------------------------------------------------------
(* Claims about the payoff, under SpecPayoff *)

\* a leg of the data model: Call or Put, contracts unparsable or at least 1;
\* its numeric fields are read with the documented defaults
ModelLeg(leg) ==
  /\ leg.type \in Types
  /\ leg.contracts /= 0
  /\ leg.strike = NaN \/ leg.strike >= 0

StrikeOf(leg) == IF leg.strike = NaN THEN 0 ELSE leg.strike
PremiumOf(leg) == IF leg.premium = NaN THEN 0 ELSE leg.premium
ContractsOf(leg) == IF leg.contracts = NaN THEN 1 ELSE leg.contracts

Intrinsic(leg, p) ==
  IF leg.type = "Call"
  THEN (IF p > StrikeOf(leg) THEN p - StrikeOf(leg) ELSE 0)
  ELSE (IF StrikeOf(leg) > p THEN StrikeOf(leg) - p ELSE 0)

PayoffAt(leg, p) ==
  IF leg.action = "Buy"
  THEN (Intrinsic(leg, p) - PremiumOf(leg)) * ContractsOf(leg)
  ELSE (PremiumOf(leg) - Intrinsic(leg, p)) * ContractsOf(leg)

RECURSIVE SumPayoffAt(_, _, _)
SumPayoffAt(ls, p, i) ==
  IF i = 0 THEN 0 ELSE SumPayoffAt(ls, p, i - 1) + PayoffAt(ls[i], p)

\* C1: the per-leg payoff is (intrinsic - premium) * contracts for Buy and
\* its negation for Sell; the strategy payoff is the sum over the legs; at
\* price = strike a leg's payoff is -premium * contracts for Buy and
\* +premium * contracts for Sell.
C1_PayoffFormula ==
  /\ (pc = "legPayoff" /\ ModelLeg(given[out.leg]))
     => LET leg == given[out.leg]
        IN /\ out.value = PayoffAt(leg, price)
           /\ (price = StrikeOf(leg) /\ leg.action = "Buy")
                => out.value = -(PremiumOf(leg) * ContractsOf(leg))
           /\ (price = StrikeOf(leg) /\ leg.action = "Sell")
                => out.value = PremiumOf(leg) * ContractsOf(leg)
  /\ (pc = "strategyPayoff" /\ \A i \in 1..Len(given) : ModelLeg(given[i]))
     => out.value = SumPayoffAt(given, price, Len(given))

\* a sold put at the money, 2 contracts: +premium * contracts
C1_Witness ==
  /\ pc = "legPayoff"
  /\ given[out.leg].action = "Sell" /\ given[out.leg].type = "Put"
  /\ given[out.leg].strike = price /\ price > 0
  /\ given[out.leg].premium = 5 * Dollar /\ given[out.leg].contracts = 2
  /\ out.value = 10 * Dollar

\* C2: every point of the chart curve carries the payoff the metrics engine
\* computes at that price, for every leg list (unparsable fields and unset
\* types included).
C2_ChartMatchesEngine ==
  pc = "curve"
  => \A i \in 1..Len(out.points) :
       out.points[i].y = calculateStrategyPayoff(given, out.points[i].x)

-----------------------------------------------------------------------------
(* The metrics engine as a state machine *)

MetricStrikes == {100 * Dollar, 110 * Dollar}
MetricPremiums == {2504, 5 * Dollar}
MetricLegs == LegsOver(MetricStrikes, MetricPremiums, {1, MaxContracts})

\* legs with unparsable fields
UnparsableLegs ==
  [action : Actions, type : Types, strike : {NaN, 100 * Dollar},
   premium : {NaN, 5 * Dollar}, contracts : {NaN, 2}]

\* lists with unparsable fields: every single leg; a bought leg beside a
\* parsable or an unparsable one; 4 legs of one type, the first with an
\* unparsable strike, the second at strike 0 or 90
TolerantInputs ==
  ListsOf(1, UnparsableLegs)
  \cup {<<a, b>> : a \in {l \in UnparsableLegs : l.action = "Buy"},
                   b \in LegsOver({NaN, 110 * Dollar}, {5 * Dollar}, {1})}
  \cup {l \in {<<a, b, c, d>> :
                 a \in LegsOver({NaN}, {5 * Dollar}, {1}),
                 b \in LegsOver({0, 90 * Dollar}, {5 * Dollar}, {1}),
                 c \in {x \in LegsOver({95 * Dollar}, {5 * Dollar}, {1}) :
                          x.action = "Sell"},
                 d \in {x \in LegsOver({105 * Dollar}, {5 * Dollar}, {1}) :
                          x.action = "Buy"}} :
          \A i \in 2..4 : l[i].type = l[1].type}

\* two legs whose premiums differ by less than half a cent
FinePremiumInputs == ListsOf(2, LegsOver({100 * Dollar}, {2500, 2504}, {1}))

MetricInputs ==
  {<<>>} \cup ListsOf(1, MetricLegs) \cup ListsOf(2, MetricLegs) \cup TolerantInputs
  \cup FinePremiumInputs
Margins == {0, 500 * Dollar}

InitMetrics ==
  /\ legs \in MetricInputs
  /\ given = legs
  /\ price = 0
  /\ pc = "init"
  /\ out = [ret |-> EmptyMetrics, marginRequired |-> 0, last |-> 0]
  /\ StorageUntouched

\* calculateStrategyMetrics(legs, assetPrice, marginRequired)
CalculateStrategyMetrics ==
  /\ pc = "init"
  /\ IF legs = <<>>
     THEN /\ \E marginRequired \in Margins :
               out' = [ret |-> EmptyMetrics, marginRequired |-> marginRequired,
                       last |-> 0]
          /\ legs' = legs
     ELSE LET sorted == LegsAfterDetect(legs)
              loop == SimulationLoop(sorted)
          IN /\ \E o \in MetricsOutcomes(legs),
                   last \in {SamplePoints - 1, SamplePoints},
                   marginRequired \in Margins :
                  out' = [ret |-> calculateStrategyMetrics(sorted, marginRequired,
                                    o.strategyDetails, SimulationEnd(loop, last),
                                    o.explanations),
                          marginRequired |-> marginRequired, last |-> last]
             /\ legs' = sorted
  /\ pc' = "metrics"
  /\ UNCHANGED <<given, price, storage>>

\* calculateStrategyMetrics(null, ...) and calculateStrategyMetrics(undefined, ...):
\* !legs holds and the default record is returned before legs is read
CalculateStrategyMetricsNoList ==
  /\ pc = "init"
  /\ \E absent \in {"null", "undefined"}, marginRequired \in Margins :
       out' = [ret |-> EmptyMetrics, marginRequired |-> marginRequired,
               last |-> 0, arg |-> absent]
  /\ pc' = "metricsNoList"
  /\ UNCHANGED <<legs, given, price, storage>>

NextMetrics == CalculateStrategyMetrics \/ CalculateStrategyMetricsNoList

SpecMetrics == InitMetrics /\ [][NextMetrics]_vars

-----------------------------------------------------------------------------
(* Claims about the metrics, under SpecMetrics *)

Within(a, b, tolerance) == Abs(a - b) <= tolerance

\* what is paid for the Buy legs less what is received for the Sell legs
NetDebit(ls) ==
  LET paid(i) == IF ls[i].action = "Buy" THEN ls[i].premium * ls[i].contracts
                 ELSE -(ls[i].premium * ls[i].contracts)
  IN paid(1) + paid(2)

\* Buy Call at ls[lo], Sell Call at a higher strike at ls[hi], equal
\* contracts, a net debit
BullCallSpread(ls, lo, hi) ==
  /\ Len(ls) = 2 /\ {lo, hi} = {1, 2}
  /\ ls[lo].type = "Call" /\ ls[lo].action = "Buy"
  /\ ls[hi].type = "Call" /\ ls[hi].action = "Sell"
  /\ ls[hi].strike > ls[lo].strike
  /\ ls[hi].contracts = ls[lo].contracts
  /\ NetDebit(ls) > 0

SpreadWidth(ls, lo, hi) == (ls[hi].strike - ls[lo].strike) * ls[lo].contracts

\* C3 as stated: for every Bull Call Spread, maxLoss == d and
\* maxProfit == (H - L) * c - d, within 1 cent.
C3_Original ==
  \A lo, hi \in 1..2 :
    (pc = "metrics" /\ BullCallSpread(given, lo, hi))
    => /\ Within(out.ret.maxLoss, NetDebit(given), Cent)
       /\ Within(out.ret.maxProfit,
                 SpreadWidth(given, lo, hi) - NetDebit(given), Cent)

\* C3 as amended: for every Bull Call Spread, maxLoss == -d (the lowest
\* payoff, a negative number) and maxProfit == (H - L) * c - d, within 1 cent.
C3_BullCallSpread ==
  \A lo, hi \in 1..2 :
    (pc = "metrics" /\ BullCallSpread(given, lo, hi))
    => /\ Within(out.ret.maxLoss, -NetDebit(given), Cent)
       /\ Within(out.ret.maxProfit,
                 SpreadWidth(given, lo, hi) - NetDebit(given), Cent)

\* Buy Call 100 at 5.00, Sell Call 110 at 2.504, 2 contracts each: d = 4.992
C3_Witness ==
  /\ pc = "metrics" /\ BullCallSpread(given, 1, 2)
  /\ given[1].strike = 100 * Dollar /\ given[2].strike = 110 * Dollar
  /\ given[1].contracts = 2 /\ NetDebit(given) = 4992
  /\ out.ret.maxLoss = -4990 /\ out.ret.maxProfit = 15010
  /\ out.last = SamplePoints - 1

\* Buy Call at ls[c], Buy Put at ls[p], one strike K > 0, equal contracts
Straddle(ls, c, p) ==
  /\ Len(ls) = 2 /\ {c, p} = {1, 2}
  /\ ls[c].type = "Call" /\ ls[c].action = "Buy"
  /\ ls[p].type = "Put" /\ ls[p].action = "Buy"
  /\ ls[c].strike = ls[p].strike /\ ls[c].strike > 0
  /\ ls[c].contracts = ls[p].contracts

\* C4: for every Straddle, breakevens == [K - (p1 + p2), K + (p1 + p2)] (to
\* 2 decimals), maxLoss == (p1 + p2) * contracts and maxProfit is 'Unlimited'.
C4_Straddle ==
  \A c, p \in 1..2 :
    (pc = "metrics" /\ Straddle(given, c, p))
    => LET K == given[c].strike
           paid == given[c].premium + given[p].premium
       IN /\ out.ret.breakevens = <<ToFixed2(K - paid), ToFixed2(K + paid)>>
          /\ out.ret.maxLoss = ToFixed2(paid * given[c].contracts)
          /\ out.ret.maxProfit = Unlimited

\* C11: in every result the breakevens are strictly ascending, are whole
\* cents (so no two are equal after rounding to 2 decimals) and none is
\* negative.
C11_Breakevens ==
  pc = "metrics"
  => LET b == out.ret.breakevens
     IN \A i \in 1..Len(b) :
          /\ b[i] >= 0
          /\ b[i] % Cent = 0
          /\ i < Len(b) => b[i] < b[i + 1]

\* a Call and a Put bought at 110: breakevens on both sides of the strike
C11_Witness ==
  /\ pc = "metrics" /\ Straddle(given, 1, 2)
  /\ given[1].strike = 110 * Dollar
  /\ given[1].premium = 5 * Dollar /\ given[2].premium = 5 * Dollar
  /\ out.ret.breakevens = <<100 * Dollar, 120 * Dollar>>

\* the sampling range stated by the metrics rules: over the legs with a
\* strike > 0, from max(0, minStrike / 2) to 1.5 * maxStrike, with minStrike
\* 10 and maxStrike 100 when no leg has a positive strike
PositiveStrikesOf(ls) == {x \in {StrikeOf(ls[i]) : i \in 1..Len(ls)} : x > 0}
RangeStart(ls) ==
  LET P == PositiveStrikesOf(ls)
      lo == IF P = {} THEN 10 * Dollar ELSE CHOOSE x \in P : \A y \in P : x <= y
  IN IF lo > 0 THEN lo \div 2 ELSE 0
RangeEnd(ls) ==
  LET P == PositiveStrikesOf(ls)
      hi == IF P = {} THEN 100 * Dollar ELSE CHOOSE x \in P : \A y \in P : x >= y
  IN (3 * hi) \div 2

\* the strategy payoff at the sample prices RangeStart + k * s, k = 0..last,
\* with s = (RangeEnd - RangeStart) / 500
SamplePayoffs(ls, last) ==
  LET a == RangeStart(ls)
      s == (RangeEnd(ls) - a) \div 500
  IN [k \in 0..last |-> SumPayoffAt(ls, a + k * s, Len(ls))]

RECURSIVE Highest(_, _, _)
Highest(f, lo, hi) ==
  IF lo = hi THEN f[lo]
  ELSE LET mid == (lo + hi) \div 2
           l == Highest(f, lo, mid)
           r == Highest(f, mid + 1, hi)
       IN IF l >= r THEN l ELSE r

RECURSIVE Lowest(_, _, _)
Lowest(f, lo, hi) ==
  IF lo = hi THEN f[lo]
  ELSE LET mid == (lo + hi) \div 2
           l == Lowest(f, lo, mid)
           r == Lowest(f, mid + 1, hi)
       IN IF l <= r THEN l ELSE r

C13_ProbProfitNotComputed ==
  pc \in {"metrics", "metricsNoList"} => out.ret.probProfit = [string |-> "N/A"]

\* C14: called with an empty, null or undefined list the engine returns the
\* default record: netPremium, maxProfit, maxLoss and roi 0, no breakevens,
\* name, category, direction and composition 'N/A', isCredit and isReverse
\* false.
C14_EmptyList ==
  ((pc = "metrics" /\ given = <<>>) \/ pc = "metricsNoList")
  => LET r == out.ret
     IN /\ r.netPremium = 0 /\ r.maxProfit = 0 /\ r.maxLoss = 0 /\ r.roi = 0
        /\ r.breakevens = <<>>
        /\ r.strategyName = "N/A" /\ r.strategyType = "N/A"
        /\ r.direction = "N/A" /\ r.optionType = "N/A"
        /\ r.isCredit = FALSE /\ r.isReverse = FALSE

\* the call without a list, with a margin given
C14_Witness ==
  /\ pc = "metricsNoList" /\ out.arg = "undefined"
  /\ out.marginRequired = 500 * Dollar
  /\ out.ret.strategyName = "N/A" /\ out.ret.roi = 0

\* the legs with each unparsable strike or premium replaced by 0 and each
\* unparsable contracts by 1
Zeroed(ls) ==
  [i \in 1..Len(ls) |->
     [action |-> ls[i].action, type |-> ls[i].type, strike |-> StrikeOf(ls[i]),
      premium |-> PremiumOf(ls[i]), contracts |-> ContractsOf(ls[i])]]

\* C15: on legs with an unparsable strike, premium or contracts the engine
\* returns exactly the record it returns on the same legs with the defaults
\* (0, 0, 1) written in.
C15_TolerantParsing ==
  (pc = "metrics" /\ given /= <<>> /\ Zeroed(given) /= given)
  => LET z == Zeroed(given)
         sorted == LegsAfterDetect(z)
         sim == SimulationEnd(SimulationLoop(sorted), out.last)
     IN \E o \in MetricsOutcomes(z) :
          out.ret = calculateStrategyMetrics(sorted, out.marginRequired,
                                             o.strategyDetails, sim, o.explanations)

\* the sum of premium * contracts, Sell positive and Buy negative
RECURSIVE SignedPremiums(_, _)
SignedPremiums(ls, i) ==
  IF i = 0 THEN 0
  ELSE SignedPremiums(ls, i - 1)
         + (IF ls[i].action = "Sell" THEN PremiumOf(ls[i]) * ContractsOf(ls[i])
            ELSE -(PremiumOf(ls[i]) * ContractsOf(ls[i])))

\* C16: the returned netPremium is the sum of premium * contracts (Sell
\* positive, Buy negative) rounded to 2 decimals; isCredit is true exactly
\* when the unrounded sum is > 0; direction is 'Short' when isCredit and
\* 'Long' otherwise.
C16_NetPremium ==
  (pc = "metrics" /\ given /= <<>>)
  => LET total == SignedPremiums(given, Len(given))
     IN /\ out.ret.netPremium = ToFixed2(total)
        /\ out.ret.isCredit = (total > 0)
        /\ out.ret.direction = (IF out.ret.isCredit THEN "Short" ELSE "Long")

\* sold at 2.504 and bought at 2.50: a credit of 0.004 that rounds to 0.00
C16_Witness ==
  /\ pc = "metrics" /\ Len(given) = 2
  /\ SignedPremiums(given, 2) = 4
  /\ out.ret.netPremium = 0 /\ out.ret.isCredit = TRUE
  /\ out.ret.direction = "Short"

\* C17: for a single Call leg whose strike - 0.5 and strike + 0.5 lie in
\* [startPrice, endPrice], the curve has a point at strike - 0.5, strike - 0.1,
\* strike, strike + 0.1 and strike + 0.5; every point lies in
\* [startPrice, endPrice] and the prices are strictly ascending.
C17_StrikePoints ==
  (/\ pc = "curve" /\ Len(given) = 1 /\ given[1].type = "Call"
   /\ given[1].strike /= NaN
   /\ out.startPrice <= given[1].strike - Dollar \div 2
   /\ given[1].strike + Dollar \div 2 <= out.endPrice)
  => LET K == given[1].strike
         pts == out.points
     IN /\ \A x \in {K - 500, K - 100, K, K + 100, K + 500} :
             \E i \in 1..Len(pts) : pts[i].x = x
        /\ \A i \in 1..Len(pts) :
             /\ out.startPrice <= pts[i].x /\ pts[i].x <= out.endPrice
             /\ i < Len(pts) => pts[i].x < pts[i + 1].x

\* a Call at 100 on the range [95, 105] with a step wider than the range: the
\* grid is the single price 95
C17_Witness ==
  /\ pc = "curve" /\ Len(given) = 1 /\ given[1].type = "Call"
  /\ given[1].strike = 100 * Dollar
  /\ out.endPrice = 105 * Dollar /\ out.step = 20 * Dollar
  /\ Len(out.points) = 6
  /\ out.points[2].x = 99500 /\ out.points[6].x = 100500

\* C18: the classifier and the metrics engine never mutate their input:
\* after a call the caller's list holds the same legs in the same order as
\* before it.
C18_InputNotMutated ==
  pc \in {"detect", "metrics"} => legs = given

-----------------------------------------------------------------------------
(* The two sampling loops, one iteration per step *)

\* updatePayoffChart: the range and step handed to generatePayoffPoints.
\* Math.min() and Math.max() of no strikes are Infinity and -Infinity.
chartRange(ls) ==
  LET strikes == {ParseFloat(ls[i].strike) : i \in 1..Len(ls)} \ {NaN}
      startPrice == Max2(0, SetMin(strikes) - ChartMargin * Dollar)
      endPrice == SetMax(strikes) + ChartMargin * Dollar
  IN IF strikes = {}
     THEN [startPrice |-> Infinity, endPrice |-> -Infinity, step |-> -Infinity]
     ELSE [startPrice |-> startPrice, endPrice |-> endPrice,
           step |-> (endPrice - startPrice) \div ChartSteps]

LoopStrikes == {NaN, 0, -(100 * Dollar), -(200 * Dollar), 100 * Dollar, 250 * Dollar}

LoopInputs ==
  LET ls == {l \in LegsOver(LoopStrikes, {5 * Dollar}, {1}) :
               l.action = "Buy" /\ l.type = "Call"}
  IN ListsOf(1, ls) \cup ListsOf(2, ls)

InitLoops ==
  /\ legs \in LoopInputs
  /\ given = legs
  /\ price = 0
  /\ pc = "init"
  /\ out = [iterations |-> 0]
  /\ StorageUntouched

\* calculateStrategyMetrics: for (let price = priceRangeStart; ...
EnterMetricsLoop ==
  /\ pc = "init"
  /\ price' = priceRangeStart(legs)
  /\ out' = [endPrice |-> priceRangeEnd(legs), step |-> priceStep(legs),
             iterations |-> 0]
  /\ pc' = "metricsLoop"
  /\ UNCHANGED <<legs, given, storage>>

\* updatePayoffChart -> generatePayoffPoints: for (let price = startPrice; ...
EnterChartLoop ==
  /\ pc = "init"
  /\ legs /= <<>>
  /\ LET r == chartRange(legs)
     IN /\ price' = r.startPrice
        /\ out' = [endPrice |-> r.endPrice, step |-> r.step, iterations |-> 0]
  /\ pc' = "chartLoop"
  /\ UNCHANGED <<legs, given, storage>>

\* price <= end: the body runs, then price += step
LoopIteration ==
  /\ pc \in {"metricsLoop", "chartLoop"}
  /\ price <= out.endPrice
  /\ out.iterations < IterationCap
  /\ price' = price + out.step
  /\ out' = [out EXCEPT !.iterations = @ + 1]
  /\ UNCHANGED <<legs, given, pc, storage>>

\* price <= end fails: the loop is left
LoopExit ==
  /\ pc \in {"metricsLoop", "chartLoop"}
  /\ ~(price <= out.endPrice)
  /\ pc' = (IF pc = "metricsLoop" THEN "metricsDone" ELSE "chartDone")
  /\ UNCHANGED <<legs, given, price, out, storage>>

NextLoops == EnterMetricsLoop \/ EnterChartLoop \/ LoopIteration \/ LoopExit

SpecLoops == InitLoops /\ [][NextLoops]_vars

\* C19: every sampling loop ends within a bounded number of iterations: the
\* metrics loop within 501 and the chart loop within 201, for every non-empty
\* leg list, zero, negative and unparsable strikes included.
C19_LoopsBounded ==
  /\ pc \in {"metricsLoop", "metricsDone"} => out.iterations <= SamplePoints + 1
  /\ pc \in {"chartLoop", "chartDone"} => out.iterations <= ChartSteps + 1

\* maxProfit and maxLoss are the highest and the lowest payoff (to 2
\* decimals) over the samples 0..last, and are finite numbers
ExtremesOver(last) ==
  LET f == SamplePayoffs(given, last)
      r == out.ret
  IN /\ r.maxProfit = ToFixed2(Highest(f, 0, last))
     /\ r.maxLoss = ToFixed2(Lowest(f, 0, last))
     /\ {r.maxProfit, r.maxLoss} \cap {NaN, Unlimited, Infinity, -Infinity} = {}

\* C20 as stated: for every list of 2 or more legs, maxProfit is the maximum
\* and maxLoss the minimum of the payoff over the sample prices rangeStart,
\* rangeStart + s, ..., rangeEnd with s = (rangeEnd - rangeStart) / 500, and
\* both are finite numbers.
C20_Original ==
  (pc = "metrics" /\ Len(given) >= 2) => ExtremesOver(SamplePoints)

\* C20 as amended: the same over the sample prices the loop takes, which
\* stop at rangeStart + 499 s or at rangeStart + 500 s = rangeEnd.
C20_SampledExtremes ==
  (pc = "metrics" /\ Len(given) >= 2) => ExtremesOver(out.last)

\* two legs without a positive strike, sampled on the fallback range
\* [5, 150] up to the price 149.71
C20_Witness ==
  /\ pc = "metrics" /\ Len(given) = 2
  /\ PositiveStrikesOf(given) = {}
  /\ RangeStart(given) = 5 * Dollar /\ RangeEnd(given) = 150 * Dollar
  /\ out.last = SamplePoints - 1
  /\ out.ret.maxProfit = ToFixed2(SumPayoffAt(given, 149710, 2))
  /\ out.ret.maxProfit /= ToFixed2(SumPayoffAt(given, 150 * Dollar, 2))

-----------------------------------------------------------------------------
(* Claims about the breakevens of the metrics, under SpecMetrics *)

\* a sign change between two payoffs, a payoff of exactly zero on either
\* side counted: one is <= 0 and the other >= 0.  Two zeros have no crossing
\* to interpolate and are not counted.
InclusiveSignChange(a, b) ==
  /\ (a <= 0 /\ b >= 0) \/ (a >= 0 /\ b <= 0)
  /\ ~(a = 0 /\ b = 0)

\* the zero crossing of the line through (x1, y1) and (x2, y2), y1 /= y2,
\* to 2 decimals
InterpolatedZero(x1, y1, x2, y2) ==
  ToFixed2Ratio(x1 * (y2 - y1) - y1 * (x2 - x1), y2 - y1)

\* the interpolated crossings of the consecutive samples 0..last that change
\* sign
SignChangeCrossings(ls, last) ==
  LET f == SamplePayoffs(ls, last)
      a == RangeStart(ls)
      s == (RangeEnd(ls) - a) \div 500
  IN {InterpolatedZero(a + k * s, f[k], a + (k + 1) * s, f[k + 1]) :
        k \in {j \in 0..(last - 1) : InclusiveSignChange(f[j], f[j + 1])}}

\* C21: a breakeven is reported for every pair of consecutive samples whose
\* payoffs change sign, a payoff of exactly zero on either side counted, at
\* the linear interpolation of the crossing; none is reported for a pair
\* without such a sign change.
C21_SignChangeBreakevens ==
  (pc = "metrics" /\ given /= <<>>)
  => {out.ret.breakevens[i] : i \in 1..Len(out.ret.breakevens)}
       = SignChangeCrossings(given, out.last)

-----------------------------------------------------------------------------
(* Chart annotations: chartUtils.js, updatePayoffChart *)

\* y <= 0 and y >= 0 on Numbers: false of NaN
FLe0(y) == y /= NaN /\ y <= 0
FGe0(y) == y /= NaN /\ y >= 0

\* Math.max(...ys) and Math.min(...ys) over the y of the points: NaN if any
\* y is NaN, -Infinity and Infinity over no points
MaxY(points) ==
  LET ys == {points[i].y : i \in 1..Len(points)}
  IN IF ys = {} THEN -Infinity ELSE IF NaN \in ys THEN NaN ELSE SetMax(ys)
MinY(points) ==
  LET ys == {points[i].y : i \in 1..Len(points)}
  IN IF ys = {} THEN Infinity ELSE IF NaN \in ys THEN NaN ELSE SetMin(ys)

\* the test "the line crosses y = 0 between these points"
crossesZero(prev, point) ==
  (FLe0(prev.y) /\ FGe0(point.y)) \/ (FGe0(prev.y) /\ FLe0(point.y))

\* ratio = |prev.y| / (|prev.y| + |point.y|),
\* breakeven = prev.x + (point.x - prev.x) * ratio, as the quotient n / d;
\* d = 0 is the division 0 / 0, whose result is NaN
chartBreakeven(prev, point) ==
  LET d == Abs(prev.y) + Abs(point.y)
  IN [n |-> prev.x * d + (point.x - prev.x) * Abs(prev.y), d |-> d]

\* the breakeven annotations in the order reduce() creates them: annotation
\* number c (the key 'breakeven' + c) of the pair of points (i - 1, i), the
\* pairs ascending
breakevenAnnotations(payoffPoints) ==
  LET pairs == AscendingSeq({i \in 2..Len(payoffPoints) :
                               crossesZero(payoffPoints[i - 1], payoffPoints[i])})
  IN [c \in 1..Len(pairs) |->
        [pair |-> pairs[c],
         breakeven |-> chartBreakeven(payoffPoints[pairs[c] - 1], payoffPoints[pairs[c]])]]

\* what updatePayoffChart(chart, legs, assetPrice) hands to the chart, for a
\* non-empty list with a parsable strike and a step > 0
updatePayoffChart(ls) ==
  LET r == chartRange(ls)
      payoffPoints == generatePayoffPoints(ls, r.startPrice, r.endPrice, r.step)
  IN [data |-> payoffPoints,
      maxProfit |-> MaxY(payoffPoints),
      maxLoss |-> MinY(payoffPoints),
      breakevens |-> breakevenAnnotations(payoffPoints)]

ChartPremiums == {0, 5 * Dollar}

\* lists of 1 and 2 legs on the strikes 100 and 110
ChartInputs ==
  ListsOf(1, LegsOver(MetricStrikes, ChartPremiums, {1}))
  \cup ListsOf(2, LegsOver(MetricStrikes, ChartPremiums, {1}))

\* assetPrice: not yet entered (0) or 100
ChartAssetPrices == {0, 100 * Dollar}

InitChart ==
  /\ legs \in ChartInputs
  /\ given = legs
  /\ price \in ChartAssetPrices
  /\ pc = "init"
  /\ out = [data |-> <<>>]
  /\ StorageUntouched

\* updatePayoffChart(chart, legs, assetPrice); it returns at once without
\* legs or without an asset price
UpdatePayoffChart ==
  /\ pc = "init"
  /\ legs /= <<>> /\ price /= 0 /\ price /= NaN
  /\ out' = updatePayoffChart(legs)
  /\ pc' = "chart"
  /\ UNCHANGED <<legs, given, price, storage>>

NextChart == UpdatePayoffChart

SpecChart == InitChart /\ [][NextChart]_vars

-----------------------------------------------------------------------------
(* Claims about the chart annotations, under SpecChart *)

\* a point of the curve as a sample of the metrics engine
AsSample(point) == [price |-> point.x, pnl |-> point.y]

\* the metrics engine reports a breakeven for the pair of points
MetricsReports(prev, point) ==
  /\ SignChange(AsSample(prev), AsSample(point))
  /\ NotNegative(Crossing(AsSample(prev), AsSample(point)))

\* two quotients are the same number; 0 / 0 equals nothing
SameQuotient(a, b) == a.d /= 0 /\ b.d /= 0 /\ a.n * b.d = b.n * a.d

\* C22: for every pair of consecutive points of the curve, a breakeven
\* annotation is created if and only if the metrics engine's rule reports a
\* breakeven for that pair, and both compute the same crossing price.
C22_SameRuleAsMetrics ==
  pc = "chart"
  => \A i \in 2..Len(out.data) :
       LET prev == out.data[i - 1]
           point == out.data[i]
           made == {k \in 1..Len(out.breakevens) : out.breakevens[k].pair = i}
       IN /\ (made /= {}) = MetricsReports(prev, point)
          /\ \A k \in made :
               SameQuotient(out.breakevens[k].breakeven,
                            Crossing(AsSample(prev), AsSample(point)))

\* C29: every breakeven annotation has a finite price between the prices of
\* the two consecutive points that produced it, prev.x <= breakeven <=
\* point.x, also where two consecutive points have a payoff of exactly zero.
C29_BreakevenWithinPair ==
  pc = "chart"
  => \A k \in 1..Len(out.breakevens) :
       LET b == out.breakevens[k].breakeven
           prev == out.data[out.breakevens[k].pair - 1]
           point == out.data[out.breakevens[k].pair]
       IN /\ b.d /= 0
          /\ prev.x * b.d <= b.n /\ b.n <= point.x * b.d

-----------------------------------------------------------------------------
(* The metrics engine on the shapes that have an explanation template *)

\* 4 legs entered in ascending order of strike, every choice of action and
\* type on each
FourLegsAt(k1, k2, k3, k4) ==
  {<<a, b, c, d>> : a \in LegsOver({k1}, {5 * Dollar}, {1}),
                    b \in LegsOver({k2}, {5 * Dollar}, {1}),
                    c \in LegsOver({k3}, {5 * Dollar}, {1}),
                    d \in LegsOver({k4}, {5 * Dollar}, {1})}

\* single legs; pairs on the strikes 100 and 110; 3 legs on one strike; 4
\* legs on 4 distinct strikes and on 3 with the middle one held twice
ExplainInputs ==
  ListsOf(1, LegsOver({100 * Dollar}, {5 * Dollar}, {1}))
  \cup ListsOf(2, LegsOver(MetricStrikes, {2 * Dollar, 5 * Dollar}, {1}))
  \cup {l \in ListsOf(3, LegsOver({100 * Dollar}, {5 * Dollar}, {1})) :
          l[1].action = "Buy" /\ l[2].type = "Call"}
  \cup FourLegsAt(90 * Dollar, 95 * Dollar, 105 * Dollar, 110 * Dollar)
  \cup FourLegsAt(90 * Dollar, 100 * Dollar, 100 * Dollar, 110 * Dollar)

InitExplain ==
  /\ legs \in ExplainInputs
  /\ given = legs
  /\ price = 0
  /\ pc = "init"
  /\ out = [ret |-> EmptyMetrics, marginRequired |-> 0, last |-> 0]
  /\ StorageUntouched

SpecExplain == InitExplain /\ [][NextMetrics]_vars

-----------------------------------------------------------------------------
(* Claims about the explanations, under SpecExplain *)

\* the classifications that have an explanation template: a single leg, a
\* named vertical spread, an Iron Condor or Reverse Iron Condor, a Long or
\* Short Butterfly, a single-type Condor that is not reversed
HasTemplate(r) ==
  \/ r.strategyType = "Single Leg"
  \/ r.strategyName \in {"Bull Call Spread", "Bear Call Spread",
                         "Bull Put Spread", "Bear Put Spread"}
  \/ r.strategyName \in {"Iron Condor", "Reverse Iron Condor"}
  \/ r.strategyType = "Butterfly" /\ r.strategyName /= "Custom Strategy"
  \/ r.strategyType = "Condor" /\ r.optionType /= "Mixed" /\ ~r.isReverse

\* C23: both explanations are non-empty for every list whose classification
\* has a template, and both are empty for every other classification.
C23_TemplatesAttached ==
  (pc = "metrics" /\ given /= <<>>)
  => IF HasTemplate(out.ret)
     THEN /\ out.ret.maxProfitExplanation.text /= ""
          /\ out.ret.maxLossExplanation.text /= ""
     ELSE /\ out.ret.maxProfitExplanation.text = ""
          /\ out.ret.maxLossExplanation.text = ""

-----------------------------------------------------------------------------
(* Claims about the extremes, under SpecMetrics *)

\* C25: whenever maxProfit and maxLoss are both numbers (neither is
\* 'Unlimited'), maxLoss <= maxProfit, for every non-empty leg list, single
\* Buy Put and single Sell Put included.
C25_LossBelowProfit ==
  (/\ pc = "metrics" /\ given /= <<>>
   /\ out.ret.maxProfit /= Unlimited /\ out.ret.maxLoss /= Unlimited)
  => out.ret.maxLoss <= out.ret.maxProfit

-----------------------------------------------------------------------------
(* Claims about the regions the explanations name, under SpecExplain *)

AboveHigherStrike ==
  {"You get max profit when price ends above higher strike ({}).",
   "You get max profit when price stays above higher strike ({}).",
   "You get max loss when price rises above higher strike ({})."}

BelowLowerStrike ==
  {"You get max profit when price stays below lower strike ({}).",
   "You get max loss when price stays below lower strike ({}).",
   "You get max loss when price drops below lower strike ({})."}

\* prices of the region an explanation of a 2-leg spread names: from the
\* higher strike up to the end of the sampled range, or from its start up to
\* the lower strike; the payoff is linear between two strikes
RegionNamed(e, ls) ==
  LET L == StrikeAtRank(ls, 1)
      H == StrikeAtRank(ls, 2)
  IN IF e.text \in AboveHigherStrike /\ e.strikes = <<[dollars |-> H]>>
     THEN {H, H + Dollar, RangeEnd(ls)}
     ELSE IF e.text \in BelowLowerStrike /\ e.strikes = <<[dollars |-> L]>>
     THEN {RangeStart(ls), L - Dollar, L}
     ELSE {}

\* C26: for every list classified Bull Call, Bear Call, Bull Put or Bear Put
\* Spread with equal contracts, the payoff in the region the max-profit
\* explanation names (above the higher strike, or below the lower strike)
\* equals the maximum sampled payoff, and the payoff in the region the
\* max-loss explanation names equals the minimum sampled payoff.
C26_SpreadRegions ==
  (/\ pc = "metrics" /\ Len(given) = 2
   /\ out.ret.strategyName \in {"Bull Call Spread", "Bear Call Spread",
                                "Bull Put Spread", "Bear Put Spread"}
   /\ given[1].contracts = given[2].contracts)
  => LET best == RegionNamed(out.ret.maxProfitExplanation, given)
         worst == RegionNamed(out.ret.maxLossExplanation, given)
     IN /\ best /= {} /\ worst /= {}
        /\ \A p \in best : ToFixed2(SumPayoffAt(given, p, 2)) = out.ret.maxProfit
        /\ \A p \in worst : ToFixed2(SumPayoffAt(given, p, 2)) = out.ret.maxLoss

\* the prices from the second to the third of 4 distinct strikes
BetweenInnerStrikes(ls) ==
  {p \in {k * Dollar : k \in 0..200} :
     StrikeAtRank(ls, 2) <= p /\ p <= StrikeAtRank(ls, 3)}

\* C27: for every 4-leg list with equal contracts classified 'Iron Condor'
\* the payoff at every price between the two inner strikes equals the
\* maximum sampled payoff; for every list classified 'Reverse Iron Condor'
\* it equals the minimum sampled payoff.
C27_CondorRegions ==
  (/\ pc = "metrics" /\ Len(given) = 4
   /\ \A i \in 1..4 : given[i].contracts = given[1].contracts)
  => /\ out.ret.strategyName = "Iron Condor"
          => \A p \in BetweenInnerStrikes(given) :
               ToFixed2(SumPayoffAt(given, p, 4)) = out.ret.maxProfit
     /\ out.ret.strategyName = "Reverse Iron Condor"
          => \A p \in BetweenInnerStrikes(given) :
               ToFixed2(SumPayoffAt(given, p, 4)) = out.ret.maxLoss

-----------------------------------------------------------------------------
(* Claims about the classifier's name and category, under SpecClassify *)

\* C28: for every leg list the name is 'Custom Strategy' if and only if the
\* category is 'Custom'.
C28_NameMatchesCategory ==
  pc = "detect" => ((out.name = "Custom Strategy") = (out.type = "Custom"))

-----------------------------------------------------------------------------
(* Storage service: storageService.js, saveStrategy and syncWithSupabase *)
(*                                                                         *)
(* Both are async functions on one event loop: the code between two awaits *)
(* runs as one step, and any other handler can run while a call awaits.    *)

analytics == <<legs, given, price, pc, out>>

\* the analytics functions are not used by the storage service
AnalyticsUntouched ==
  /\ legs = <<>> /\ given = <<>> /\ price = 0 /\ pc = "init" /\ out = [name |-> ""]

\* the saveStrategy calls, the syncWithSupabase runs and the values of
\* Date.now() explored
MaxSaves == 2
MaxSyncs == 2
NumTimestamps == 2

SaveIds == 1..MaxSaves
SyncIds == 1..MaxSyncs
Timestamps == 1..NumTimestamps

\* the timestamps of the strategies in a list
TimestampsOf(strategies) == {strategies[i].timestamp : i \in 1..Len(strategies)}

\* the position from which the loop "for (const strategy of strategies)"
\* reaches its next upsert: the first strategy at or after position from
\* with !syncStatus[strategy.timestamp], or 0 when the loop ends
NextUnsynced(strategies, syncStatus, from) ==
  LET todo == {i \in from..Len(strategies) : strategies[i].timestamp \notin syncStatus}
  IN IF todo = {} THEN 0 ELSE SetMin(todo)

InitStorage ==
  /\ AnalyticsUntouched
  /\ localStorage = [optionStrategies |-> <<>>, optionStrategiesSyncStatus |-> {}]
  /\ isOnline \in BOOLEAN
  /\ supabase \in {[user |-> u, sent |-> [k \in SaveIds |-> 0],
                    stored |-> [k \in SaveIds |-> 0]] : u \in BOOLEAN}
  /\ saveCalls = [k \in SaveIds |-> [pc |-> "idle", strategy |-> [id |-> k, timestamp |-> 0]]]
  /\ syncRuns = [r \in SyncIds |->
                   [pc |-> "idle", syncStatus |-> {}, strategies |-> <<>>, i |-> 0,
                    atStart |-> {}]]

\* saveStrategy(strategy) up to its first await: the strategy is appended to
\* optionStrategies; offline the call returns true, online it awaits
\* supabase.auth.getUser().  The strategy carries the Date.now() of its
\* submission, which is not lower than that of an earlier one and may be
\* equal to it.  The explored lists stay below the 5 MB limit.
SaveStrategy(k) ==
  /\ saveCalls[k].pc = "idle"
  /\ k > 1 => saveCalls[k - 1].pc /= "idle"
  /\ \E t \in Timestamps :
       /\ \A u \in TimestampsOf(localStorage.optionStrategies) : u <= t
       /\ LET strategy == [id |-> k, timestamp |-> t]
          IN /\ localStorage' = [localStorage EXCEPT
                                   !.optionStrategies = Append(@, strategy)]
             /\ saveCalls' = [saveCalls EXCEPT ![k] =
                                [pc |-> IF isOnline THEN "getUser" ELSE "saved",
                                 strategy |-> strategy]]
  /\ UNCHANGED <<analytics, isOnline, supabase, syncRuns>>

\* saveStrategy resumes with the user: logged in, it sends the insert and
\* awaits it; otherwise it returns true
SaveStrategyGotUser(k) ==
  /\ saveCalls[k].pc = "getUser"
  /\ IF supabase.user
     THEN /\ supabase' = [supabase EXCEPT !.sent[k] = @ + 1]
          /\ saveCalls' = [saveCalls EXCEPT ![k].pc = "insert"]
     ELSE /\ saveCalls' = [saveCalls EXCEPT ![k].pc = "saved"]
          /\ UNCHANGED supabase
  /\ UNCHANGED <<analytics, localStorage, isOnline, syncRuns>>

\* saveStrategy resumes after the insert: it reads the sync-status map, sets
\* the flag of its timestamp, writes the map back and returns true
SaveStrategyInserted(k) ==
  /\ saveCalls[k].pc = "insert"
  /\ supabase' = [supabase EXCEPT !.stored[k] = @ + 1]
  /\ localStorage' = [localStorage EXCEPT !.optionStrategiesSyncStatus =
                        @ \cup {saveCalls[k].strategy.timestamp}]
  /\ saveCalls' = [saveCalls EXCEPT ![k].pc = "synced"]
  /\ UNCHANGED <<analytics, isOnline, syncRuns>>

\* the 'online' event: isOnline = true, then syncWithSupabase() runs up to
\* its await of supabase.auth.getUser()
OnlineEvent(r) ==
  /\ ~isOnline
  /\ syncRuns[r].pc = "idle"
  /\ r > 1 => syncRuns[r - 1].pc /= "idle"
  /\ isOnline' = TRUE
  /\ syncRuns' = [syncRuns EXCEPT ![r] =
                    [@ EXCEPT !.pc = "getUser",
                              !.atStart = {localStorage.optionStrategies[i] :
                                             i \in 1..Len(localStorage.optionStrategies)}]]
  /\ UNCHANGED <<analytics, localStorage, supabase, saveCalls>>

\* the 'offline' event
OfflineEvent ==
  /\ isOnline
  /\ isOnline' = FALSE
  /\ UNCHANGED <<analytics, localStorage, supabase, saveCalls, syncRuns>>

\* the loop of syncWithSupabase from position from, with the local copies
\* syncStatus and strategies and the rows db received so far: it sends the upsert of the next unsynced
\* strategy and awaits it, or ends and writes syncStatus back
SyncLoop(r, db, syncStatus, strategies, from) ==
  LET i == NextUnsynced(strategies, syncStatus, from)
  IN IF i /= 0
     THEN /\ supabase' = [db EXCEPT !.sent[strategies[i].id] = @ + 1]
          /\ syncRuns' = [syncRuns EXCEPT ![r] =
                            [@ EXCEPT !.pc = "upsert", !.syncStatus = syncStatus,
                                      !.strategies = strategies, !.i = i]]
          /\ UNCHANGED localStorage
     ELSE /\ supabase' = db
          /\ localStorage' = [localStorage EXCEPT
                                !.optionStrategiesSyncStatus = syncStatus]
          /\ syncRuns' = [syncRuns EXCEPT ![r] =
                            [@ EXCEPT !.pc = "done", !.syncStatus = syncStatus,
                                      !.strategies = strategies, !.i = 0]]

\* syncWithSupabase resumes with the user: not logged in, it returns;
\* otherwise it reads the sync-status map and the strategies and enters the
\* loop
SyncGotUser(r) ==
  /\ syncRuns[r].pc = "getUser"
  /\ IF supabase.user
     THEN SyncLoop(r, supabase, localStorage.optionStrategiesSyncStatus,
                   localStorage.optionStrategies, 1)
     ELSE /\ syncRuns' = [syncRuns EXCEPT ![r].pc = "returned"]
          /\ UNCHANGED <<localStorage, supabase>>
  /\ UNCHANGED <<analytics, isOnline, saveCalls>>

\* syncWithSupabase resumes after an upsert: it sets the flag in its copy of
\* the map and goes on with the loop
SyncUpserted(r) ==
  /\ syncRuns[r].pc = "upsert"
  /\ LET run == syncRuns[r]
         strategy == run.strategies[run.i]
     IN SyncLoop(r, [supabase EXCEPT !.stored[strategy.id] = @ + 1],
                 run.syncStatus \cup {strategy.timestamp}, run.strategies, run.i + 1)
  /\ UNCHANGED <<analytics, isOnline, saveCalls>>

NextStorage ==
  \/ \E k \in SaveIds : SaveStrategy(k)
  \/ \E k \in SaveIds : SaveStrategyGotUser(k)
  \/ \E k \in SaveIds : SaveStrategyInserted(k)
  \/ \E r \in SyncIds : OnlineEvent(r)
  \/ OfflineEvent
  \/ \E r \in SyncIds : SyncGotUser(r)
  \/ \E r \in SyncIds : SyncUpserted(r)

SpecStorage == InitStorage /\ [][NextStorage]_vars

\* run r of syncWithSupabase, with the user logged in, completes in this
\* step: it leaves its loop and writes the sync-status map
Completes(r) ==
  /\ supabase.user
  /\ syncRuns[r].pc \in {"getUser", "upsert"}
  /\ syncRuns'[r].pc = "done"

\* C24: with the user logged in and no call failing, when the sync started
\* by an 'online' event completes, every strategy that was in local
\* storage when it started has been uploaded at least once and is flagged
\* as synced
C24_OfflineDataSyncs ==
  [][\A r \in SyncIds :
       Completes(r) =>
         \A strategy \in syncRuns'[r].atStart :
           /\ supabase'.stored[strategy.id] >= 1
           /\ strategy.timestamp \in localStorage'.optionStrategiesSyncStatus]_vars

\* each strategy has been sent to Supabase at most once
SentAtMostOnce == \A k \in SaveIds : supabase.sent[k] <= 1

\* the flag written by each saveStrategy call that uploaded its strategy is
\* in the sync-status map
SavedFlagsKept ==
  \A k \in SaveIds :
    saveCalls[k].pc = "synced" =>
      saveCalls[k].strategy.timestamp \in localStorage.optionStrategiesSyncStatus

\* C30: with the user logged in and no call failing, however saveStrategy
\* and the sync interleave, each strategy is sent to Supabase at most once
\* and the synced flag written by a saveStrategy call is never lost from
\* the sync-status map
C30_SentOnceFlagKept == supabase.user => (SentAtMostOnce /\ SavedFlagsKept)

====
